---- MODULE Spec2Model ----
(***************************************************************************)
(* Token lifecycle of the resept browser extension: the background         *)
(* coordinator (src/unnamed/part_001, part_000), the popup (src/popup.js,  *)
(* src/unnamed/part_003, part_004) and the login flow.                     *)
(*                                                                         *)
(* Modelling conventions.                                                  *)
(*  - A JavaScript value is a record [t, s, n]: t is its type, s the       *)
(*    characters of a string, n the value of a number.                     *)
(*  - Time is in milliseconds since the epoch, as Date.now() returns it.   *)
(*  - A browser.storage.local call takes effect at the instant its promise *)
(*    settles, so the call and the code after its await form one step.     *)
(*    fetch, runtime.sendMessage, tabs.executeScript and timers are        *)
(*    suspension points: other contexts and callbacks run in between.      *)
(*  - storage.local.set skips a property whose value is undefined (the key *)
(*    keeps what it held); null is stored as null. Storage calls settle    *)
(*    without error, except in SpecFaults, where the coordinator's         *)
(*    storage calls may reject, and in SpecPopupFaults, where the popup's  *)
(*    may.                                                                 *)
(*  - The HTML capture of handleAddRecipe is outside the model: the        *)
(*    add-recipe step starts at sendToEndpoint.                            *)
(***************************************************************************)
EXTENDS Integers, Sequences, FiniteSets

VARIABLES now, store, variant, state, view, status, pc, reply, evPath,
          sendResult, chk, refreshTimer, timers, nextTimerId, bgInit,
          login, cb, tabStorage, expCall, sched, push, epCall

vars == <<now, store, variant, state, view, status, pc, reply, evPath,
          sendResult, chk, refreshTimer, timers, nextTimerId, bgInit,
          login, cb, tabStorage, expCall, sched, push, epCall>>

popupVars == <<variant, state, view, status, pc, reply, evPath, sendResult>>
bgVars    == <<chk, refreshTimer, timers, nextTimerId, bgInit, sched>>
loginVars == <<login, cb, tabStorage, push>>

----------------------------------------------------------------------------
(* JavaScript values *)

Undef  == [t |-> "undef", s |-> <<>>, n |-> 0]
Null   == [t |-> "null",  s |-> <<>>, n |-> 0]
Str(s) == [t |-> "str",   s |-> s,    n |-> 0]
Num(n) == [t |-> "num",   s |-> <<>>, n |-> n]

\* ToBoolean: undefined, null, "" and 0 are falsy.
Truthy(v) == \/ v.t = "str" /\ v.s # <<>>
             \/ v.t = "num" /\ v.n # 0

Digits == <<"0", "1", "2", "3", "4", "5", "6", "7", "8", "9">>

IsDigit(c) == \E i \in 1..10 : Digits[i] = c

DigitVal(c) == (CHOOSE i \in 1..10 : Digits[i] = c) - 1

RECURSIVE NatToString(_)
NatToString(n) ==
  IF n < 10 THEN <<Digits[n + 1]>>
            ELSE NatToString(n \div 10) \o <<Digits[(n % 10) + 1]>>

\* Number.prototype.toString for an integer.
NumToString(n) == IF n < 0 THEN <<"-">> \o NatToString(0 - n) ELSE NatToString(n)

\* String(v), the conversion parseInt applies to its argument.
JsToString(v) ==
  CASE v.t = "str"   -> v.s
    [] v.t = "num"   -> NumToString(v.n)
    [] v.t = "null"  -> <<"n", "u", "l", "l">>
    [] v.t = "undef" -> <<"u", "n", "d", "e", "f", "i", "n", "e", "d">>

RECURSIVE SkipSpace(_)
SkipSpace(s) == IF s # <<>> /\ Head(s) = " " THEN SkipSpace(Tail(s)) ELSE s

RECURSIVE DigitPrefix(_)
DigitPrefix(s) ==
  IF s # <<>> /\ IsDigit(Head(s)) THEN <<Head(s)>> \o DigitPrefix(Tail(s)) ELSE <<>>

RECURSIVE DigitsValue(_, _)
DigitsValue(s, acc) ==
  IF s = <<>> THEN acc ELSE DigitsValue(Tail(s), acc * 10 + DigitVal(Head(s)))

\* parseInt(v): leading white space, an optional sign, then the longest run of
\* digits; NaN when there is no digit.
ParseInt(v) ==
  LET s0   == SkipSpace(JsToString(v))
      neg  == s0 # <<>> /\ Head(s0) = "-"
      s1   == IF s0 # <<>> /\ Head(s0) \in {"-", "+"} THEN Tail(s0) ELSE s0
      ds   == DigitPrefix(s1)
  IN IF ds = <<>> THEN [nan |-> TRUE, val |-> 0]
     ELSE [nan |-> FALSE,
           val |-> IF neg THEN 0 - DigitsValue(ds, 0) ELSE DigitsValue(ds, 0)]

\* data.expires_at?.toString()
OptToString(v) ==
  IF v.t \in {"undef", "null"} THEN Undef ELSE Str(JsToString(v))

----------------------------------------------------------------------------
(* Configuration *)

REFRESH_INTERVAL == 2 * 60 * 1000
TOKEN_BUFFER     == 10 * 60 * 1000
tokenBuffer      == 5 * 60 * 1000
authTimeout      == 30

----------------------------------------------------------------------------
(* Expiry check *)

ExpiresWithin_Strict(expiresAt, nowMs, buffer) ==
  LET p == ParseInt(expiresAt)
  IN IF p.nan THEN FALSE ELSE p.val * 1000 < nowMs + buffer

\* new Date(parseInt(expiresAt) * 1000) <= new Date(nowMs + buffer); a
\* comparison with an Invalid Date (NaN) is false.
ExpiresWithin(expiresAt, nowMs, buffer) ==
  LET p == ParseInt(expiresAt)
  IN IF p.nan THEN FALSE ELSE p.val * 1000 <= nowMs + buffer

NoExpiry_Undefined(expiresAt) == expiresAt.t = "undef"

\* if (!expiresAt) return true
NoExpiry(expiresAt) == ~Truthy(expiresAt)

\* isTokenExpired(expiresAt) of the coordinator.
BgIsTokenExpired(expiresAt, nowMs) ==
  IF NoExpiry(expiresAt) THEN TRUE
  ELSE ExpiresWithin(expiresAt, nowMs, TOKEN_BUFFER)

\* isTokenExpired() of the popup, which reads the cached tokenExpiresAt.
PopupIsTokenExpired(st, nowMs) ==
  IF NoExpiry(st.tokenExpiresAt) THEN TRUE
  ELSE ExpiresWithin(st.tokenExpiresAt, nowMs, tokenBuffer)

----------------------------------------------------------------------------
(* Bounds and input values *)

MaxTicks    == 1
MaxInitRuns == 1
MaxPending  == 2

TickMs     == 10 * 60 * 1000
FarExpiry  == 24 * 60 * 60
SoonExpiry == 15 * 60

A1 == Str(<<"a", "1">>)
A2 == Str(<<"a", "2">>)
R1 == Str(<<"r", "1">>)
R2 == Str(<<"r", "2">>)

----------------------------------------------------------------------------
(* browser.storage.local *)

TokenKeys == {"jwtToken", "refreshToken", "tokenExpiresAt"}
StoreKeys == TokenKeys \cup {"lastCreatedRecipeId"}

EmptyStore == [k \in StoreKeys |-> Undef]

\* obj.k, undefined when obj has no property k
Prop(obj, k) == IF k \in DOMAIN obj THEN obj[k] ELSE Undef

\* storage.local.get(keys): an object holding the keys that are stored
StorageGet(st, keys) ==
  [k \in {x \in keys : st[x].t # "undef"} |-> st[k]]

\* storage.local.set(obj)
StorageSet(st, obj) ==
  [k \in StoreKeys |-> IF Prop(obj, k).t # "undef" THEN obj[k] ELSE st[k]]

\* storage.local.remove(keys)
StorageRemove(st, keys) ==
  [k \in StoreKeys |-> IF k \in keys THEN Undef ELSE st[k]]

\* Object.assign(target, obj)
ObjectAssign(target, obj) ==
  [k \in DOMAIN target |-> IF k \in DOMAIN obj THEN obj[k] ELSE target[k]]

HasTokens(st) == \E k \in TokenKeys : st[k].t # "undef"

----------------------------------------------------------------------------
(* Backend: POST /auth/refresh *)

Body(a, r, e) == [access_token |-> a, refresh_token |-> r, expires_at |-> e]

NoBody == Body(Undef, Undef, Undef)

\* The 2xx body of the backend's contract: a new access token, a new refresh
\* token and an expiry (epoch seconds, a number) beyond both buffers.
RefreshBodies == { Body(A2, R2, Num(FarExpiry)) }

\* fetch rejects, a non-2xx status, a 2xx whose body response.json() cannot
\* parse, or a 2xx with a JSON body
RefreshOutcomes ==
  { [kind |-> k, data |-> NoBody] : k \in {"neterr", "http", "badjson"} }
  \cup { [kind |-> "ok", data |-> b] : b \in RefreshBodies }

----------------------------------------------------------------------------
(* Coordinator: checkAndRefreshToken, refreshAccessToken, timer *)

InitCalls == {"load", "startup", "installed"}
CheckIds  == {"msg", "timer"} \cup InitCalls

IdleCheck == [pc |-> "idle", rt |-> Undef, last |-> "none"]

\* The timer against the clock: when it fires next, and the refresh requests
\* of its callbacks that have not settled. Not used: due 0, no request.
NoSched == [due |-> 0, flights |-> {}]

CheckDecision_RefreshTokenOnly(sto, nowMs) ==
  IF ~Truthy(sto.refreshToken) THEN "no_tokens"
  ELSE IF BgIsTokenExpired(sto.tokenExpiresAt, nowMs) THEN "refresh"
  ELSE "valid"

\* checkAndRefreshToken, from the storage read to the decision
CheckDecision(sto, nowMs) ==
  IF ~Truthy(sto.jwtToken) \/ ~Truthy(sto.refreshToken) THEN "no_tokens"
  ELSE IF BgIsTokenExpired(sto.tokenExpiresAt, nowMs) THEN "refresh"
  ELSE "valid"

BgRefreshSuccess_LeavesStore(sto, data) == sto

\* refreshAccessToken, 2xx with a JSON body: storage.local.set
BgRefreshSuccess(sto, data) ==
  StorageSet(sto, [jwtToken       |-> data.access_token,
                   refreshToken   |-> data.refresh_token,
                   tokenExpiresAt |-> OptToString(data.expires_at)])

BgRefreshFailure_AccessOnly(sto) == StorageRemove(sto, {"jwtToken"})

\* refreshAccessToken, catch block: storage.local.remove
BgRefreshFailure(sto) == StorageRemove(sto, TokenKeys)

SetupKeepsOld(timer, active, id) ==
  [refreshTimer |-> id, timers |-> active \cup {id}]

\* setupPeriodicRefresh: clearInterval(refreshTimer) when it is set, then
\* setInterval; null is 0 and timer ids are positive
SetupPeriodicRefresh(timer, active, id) ==
  [refreshTimer |-> id,
   timers |-> (IF timer # 0 THEN active \ {timer} ELSE active) \cup {id}]

\* onMessage listener: the value given to sendResponse in the then() of
\* checkAndRefreshToken(); last is how that check ended
ResponseValue(last) == [success |-> TRUE]

\* What runs when check c has completed: sendResponse({success: true}) for
\* a message, setupPeriodicRefresh() for init.
Completed(c) ==
  /\ reply' = IF c = "msg" THEN "ack" ELSE reply
  /\ IF c \in InitCalls
       THEN LET s == SetupPeriodicRefresh(refreshTimer, timers, nextTimerId)
            IN /\ refreshTimer' = s.refreshTimer
               /\ timers' = s.timers
               /\ nextTimerId' = nextTimerId + 1
       ELSE UNCHANGED <<refreshTimer, timers, nextTimerId>>

CheckBegin_AcksAtOnce(c) ==
  LET d == CheckDecision(store, now)
  IN IF d = "refresh"
       THEN /\ chk' = [chk EXCEPT ![c] = [pc |-> "fetching",
                                          rt |-> store.refreshToken,
                                          last |-> "none"]]
            /\ reply' = IF c = "msg" THEN "ack" ELSE reply
            /\ UNCHANGED <<refreshTimer, timers, nextTimerId>>
       ELSE /\ chk' = [chk EXCEPT ![c] = [pc |-> "idle", rt |-> Undef, last |-> d]]
            /\ Completed(c)

CheckBegin_ArmsBeforeCheckEnds(c) ==
  LET d == CheckDecision(store, now)
  IN IF d = "refresh"
       THEN /\ chk' = [chk EXCEPT ![c] = [pc |-> "fetching",
                                          rt |-> store.refreshToken,
                                          last |-> "none"]]
            /\ Completed(c)
       ELSE /\ chk' = [chk EXCEPT ![c] = [pc |-> "idle", rt |-> Undef, last |-> d]]
            /\ Completed(c)

\* checkAndRefreshToken up to its fetch, or to its end when it sends none
CheckBegin(c) ==
  LET d == CheckDecision(store, now)
  IN IF d = "refresh"
       THEN /\ chk' = [chk EXCEPT ![c] = [pc |-> "fetching",
                                          rt |-> store.refreshToken,
                                          last |-> "none"]]
            /\ UNCHANGED <<reply, refreshTimer, timers, nextTimerId>>
       ELSE /\ chk' = [chk EXCEPT ![c] = [pc |-> "idle", rt |-> Undef, last |-> d]]
            /\ Completed(c)

CheckResponse_RetriesOnFailure(c, o) ==
  /\ chk[c].pc = "fetching"
  /\ IF o.kind = "ok"
       THEN /\ store' = BgRefreshSuccess(store, o.data)
            /\ chk' = [chk EXCEPT ![c] = [pc |-> "idle", rt |-> Undef,
                                          last |-> "refreshed"]]
            /\ Completed(c)
       ELSE /\ chk[c].last = "none"
            /\ chk' = [chk EXCEPT ![c].last = "retry"]
            /\ UNCHANGED <<store, reply, refreshTimer, timers, nextTimerId>>
  /\ UNCHANGED <<now, variant, state, view, status, pc, evPath, sendResult,
                 bgInit, expCall, epCall, sched>>
  /\ UNCHANGED loginVars

\* The refresh response arrives: refreshAccessToken finishes, then the check.
CheckResponse(c, o) ==
  /\ chk[c].pc = "fetching"
  /\ IF o.kind = "ok"
       THEN /\ store' = BgRefreshSuccess(store, o.data)
            /\ chk' = [chk EXCEPT ![c] = [pc |-> "idle", rt |-> Undef,
                                          last |-> "refreshed"]]
       ELSE /\ store' = BgRefreshFailure(store)
            /\ chk' = [chk EXCEPT ![c] = [pc |-> "idle", rt |-> Undef,
                                          last |-> "failed"]]
  /\ Completed(c)
  /\ UNCHANGED <<now, variant, state, view, status, pc, evPath, sendResult,
                 bgInit, expCall, epCall, sched>>
  /\ UNCHANGED loginVars

\* The action of the message the popup is waiting on: init() sends
\* checkTokenStatus, ensureValidToken sends refreshToken
MessageAction == IF pc = "init_msg" THEN "checkTokenStatus" ELSE "refreshToken"

OnMessage_StatusSkipsCheck(action) ==
  CASE action = "refreshToken"     -> [check |-> TRUE,  respond |-> TRUE]
    [] action = "checkTokenStatus" -> [check |-> FALSE, respond |-> TRUE]
    [] OTHER                       -> [check |-> FALSE, respond |-> FALSE]

\* onMessage listener: the branch taken for an action. check: it calls
\* checkAndRefreshToken(); respond: it returns true and calls sendResponse
OnMessage(action) ==
  CASE action = "refreshToken"     -> [check |-> TRUE,  respond |-> TRUE]
    [] action = "checkTokenStatus" -> [check |-> TRUE,  respond |-> TRUE]
    [] OTHER                       -> [check |-> FALSE, respond |-> FALSE]

\* onMessage listener: refreshToken or checkTokenStatus
BgOnMessage ==
  /\ reply = "pending"
  /\ chk["msg"].pc = "idle"
  /\ IF OnMessage(MessageAction).check
       THEN CheckBegin("msg")
       ELSE /\ reply' = "ack"
            /\ chk' = [chk EXCEPT !["msg"] = [pc |-> "idle", rt |-> Undef,
                                              last |-> "none"]]
            /\ UNCHANGED <<refreshTimer, timers, nextTimerId>>
  /\ UNCHANGED <<now, store, variant, state, view, status, pc, evPath,
                 sendResult, bgInit, expCall, epCall, sched>>
  /\ UNCHANGED loginVars

\* The interval callback of an active timer
TimerFire ==
  /\ timers # {}
  /\ chk["timer"].pc = "idle"
  /\ CheckBegin("timer")
  /\ UNCHANGED <<now, store, variant, state, view, status, pc, evPath,
                 sendResult, bgInit, expCall, epCall, sched>>
  /\ UNCHANGED loginVars

\* init(): on script load, onStartup, onInstalled
BgInit(i) ==
  /\ bgInit[i] < MaxInitRuns
  /\ chk[i].pc = "idle"
  /\ bgInit' = [bgInit EXCEPT ![i] = @ + 1]
  /\ CheckBegin(i)
  /\ UNCHANGED <<now, store, variant, state, view, status, pc, evPath,
                 sendResult, expCall, epCall, sched>>
  /\ UNCHANGED loginVars

\* Time passes.
Tick ==
  /\ now < MaxTicks * TickMs
  /\ now' = now + TickMs
  /\ UNCHANGED <<store, expCall, epCall>>
  /\ UNCHANGED popupVars
  /\ UNCHANGED bgVars
  /\ UNCHANGED loginVars

----------------------------------------------------------------------------
(* Popup: cached state, checkAuthState, ensureValidToken, sendToEndpoint *)

\* The two builds of the popup: "state" keeps the tokens in a state object
\* and loads them with Object.assign(state, result); "globals" keeps them in
\* variables and assigns result.jwtToken and so on.
Variants == {"state", "globals"}

InitState == [k \in StoreKeys |-> Null]

\* The popup loads the stored tokens into its cache.
Reload(v, st, sto) ==
  LET result == StorageGet(sto, TokenKeys)
  IN IF v = "state"
       THEN ObjectAssign(st, result)
       ELSE [k \in StoreKeys |-> IF k \in TokenKeys THEN Prop(result, k) ELSE st[k]]

\* refreshAccessToken of the popup, 2xx with a JSON body: the cache
PopupApplyRefresh(st, data) ==
  [st EXCEPT !["jwtToken"] = data.access_token,
             !["refreshToken"] = data.refresh_token,
             !["tokenExpiresAt"] = OptToString(data.expires_at)]

\* refreshAccessToken of the popup: storage.local.set(state), or set of the
\* three token variables
PopupPersist(v, sto, st) ==
  IF v = "state" THEN StorageSet(sto, st)
  ELSE StorageSet(sto, [k \in TokenKeys |-> st[k]])

LogoutState_KeepsRefresh(st) ==
  [k \in StoreKeys |-> IF k \in TokenKeys \ {"refreshToken"} THEN Null ELSE st[k]]

\* handleLogout: the cache
LogoutState(st) ==
  [k \in StoreKeys |-> IF k \in TokenKeys THEN Null ELSE st[k]]

LogoutStore_KeepsExpiry(sto) == StorageRemove(sto, {"jwtToken", "refreshToken"})

\* handleLogout: storage.local.remove
LogoutStore(sto) == StorageRemove(sto, TokenKeys)

\* ensureValidToken: !jwtToken || isTokenExpired()
NeedsRefresh(st, nowMs) == ~Truthy(st.jwtToken) \/ PopupIsTokenExpired(st, nowMs)

AcceptReloaded_Never(st, nowMs) == FALSE

\* ensureValidToken, step 1 after the coordinator has answered: whether the
\* reloaded cache lets it return true
AcceptReloaded(st, nowMs) == Truthy(st.jwtToken)

\* checkAuthState from its storage read to its first fetch, or to its end.
\* next = "fetch": refreshAccessToken has sent its request.
CasRead(v, st, sto, vw, nowMs) ==
  LET s1 == Reload(v, st, sto)
  IN IF Truthy(s1.jwtToken)
       THEN IF PopupIsTokenExpired(s1, nowMs)
              THEN IF Truthy(s1.refreshToken)
                     THEN [state |-> s1, store |-> sto, view |-> vw,
                           status |-> "Token expired, refreshing...",
                           next |-> "fetch"]
                     ELSE [state |-> LogoutState(s1), store |-> LogoutStore(sto),
                           view |-> "auth",
                           status |-> "Token refresh failed, please login again",
                           next |-> "done"]
              ELSE [state |-> s1, store |-> sto, view |-> "recipe",
                    status |-> "Authenticated! Showing recipe section",
                    next |-> "done"]
       ELSE [state |-> s1, store |-> sto, view |-> "auth",
             status |-> "Not authenticated - showing login", next |-> "done"]

CasResponse_ShowsRecipeOnFailure(v, st, sto, o) ==
  IF o.kind = "ok"
    THEN LET s2 == PopupApplyRefresh(st, o.data)
         IN [state |-> s2, store |-> PopupPersist(v, sto, s2), view |-> "recipe",
             status |-> "Authenticated! Showing recipe section"]
    ELSE [state |-> st, store |-> sto, view |-> "recipe",
          status |-> "Authenticated! Showing recipe section"]

\* checkAuthState after the refresh response
CasResponse(v, st, sto, o) ==
  IF o.kind = "ok"
    THEN LET s2 == PopupApplyRefresh(st, o.data)
         IN [state |-> s2, store |-> PopupPersist(v, sto, s2), view |-> "recipe",
             status |-> "Authenticated! Showing recipe section"]
    ELSE [state |-> LogoutState(st), store |-> LogoutStore(sto), view |-> "auth",
          status |-> "Token refresh failed, please login again"]

\* DOMContentLoaded: init() up to its sendMessage({action: "checkTokenStatus"})
PopupOpen(delivered) ==
  /\ pc = "closed"
  /\ pc' = "init_msg"
  /\ status' = "Initializing..."
  /\ reply' = IF delivered THEN "pending" ELSE "error"
  /\ UNCHANGED <<now, store, variant, state, view, evPath, sendResult, expCall, epCall>>
  /\ UNCHANGED bgVars
  /\ UNCHANGED loginVars

\* init() after the message: checkAuthState()
InitCheckAuthState ==
  /\ pc = "init_msg"
  /\ reply \in {"ack", "error"}
  /\ LET r == CasRead(variant, state, store, view, now)
     IN /\ state' = r.state
        /\ store' = r.store
        /\ view' = r.view
        /\ IF r.next = "fetch"
             THEN pc' = "cas_fetch" /\ status' = r.status
             ELSE pc' = "ready" /\ status' = "Ready!"
  /\ reply' = "none"
  /\ UNCHANGED <<now, variant, evPath, sendResult, expCall, epCall>>
  /\ UNCHANGED bgVars
  /\ UNCHANGED loginVars

\* checkAuthState of init(): the refresh response arrives
InitCasResponse(o) ==
  /\ pc = "cas_fetch"
  /\ LET r == CasResponse(variant, state, store, o)
     IN /\ state' = r.state
        /\ store' = r.store
        /\ view' = r.view
  /\ pc' = "ready"
  /\ status' = "Ready!"
  /\ UNCHANGED <<now, variant, reply, evPath, sendResult, expCall, epCall>>
  /\ UNCHANGED bgVars
  /\ UNCHANGED loginVars

EnsureFails_SendsAnyway(st) ==
  /\ state' = LogoutState(st)
  /\ store' = LogoutStore(store)
  /\ view' = "auth"
  /\ status' = "Token refresh failed, please login again"
  /\ evPath' = "failed"
  /\ sendResult' = "none"
  /\ pc' = "send_fetch"

\* ensureValidToken fails: handleLogout(), return false, and sendToEndpoint
\* returns {success: false, error: "Authentication failed ..."}
EnsureFails(st) ==
  /\ state' = LogoutState(st)
  /\ store' = LogoutStore(store)
  /\ view' = "auth"
  /\ status' = "Token refresh failed, please login again"
  /\ evPath' = "failed"
  /\ sendResult' = "not_authenticated"
  /\ pc' = "ready"

\* ensureValidToken, step 2: refreshAccessToken() with the cached refresh token
DirectRefresh(st) ==
  IF Truthy(st.refreshToken)
    THEN /\ state' = st
         /\ pc' = "ev_fetch"
         /\ UNCHANGED <<store, view, status, evPath, sendResult>>
    ELSE EnsureFails(st)

\* The add-recipe button: handleAddRecipe, sendToEndpoint, ensureValidToken
\* up to its first await
AddRecipe(delivered) ==
  /\ pc = "ready"
  /\ view = "recipe"
  /\ IF NeedsRefresh(state, now)
       THEN /\ pc' = "ev_msg"
            /\ status' = "Token expired, refreshing..."
            /\ reply' = IF delivered THEN "pending" ELSE "error"
            /\ evPath' = "none"
            /\ sendResult' = "none"
       ELSE /\ pc' = "send_fetch"
            /\ evPath' = "fast"
            /\ sendResult' = "none"
            /\ UNCHANGED <<status, reply>>
  /\ UNCHANGED <<now, store, variant, state, view, expCall, epCall>>
  /\ UNCHANGED bgVars
  /\ UNCHANGED loginVars

\* ensureValidToken after the coordinator's answer, or after sendMessage failed
EnsureAfterMessage ==
  /\ pc = "ev_msg"
  /\ reply \in {"ack", "error"}
  /\ reply' = "none"
  /\ IF reply = "ack"
       THEN LET s1 == Reload(variant, state, store)
            IN IF AcceptReloaded(s1, now)
                 THEN /\ state' = s1
                      /\ status' = "Token refreshed successfully"
                      /\ evPath' = "coordinator"
                      /\ pc' = "send_fetch"
                      /\ UNCHANGED <<store, view, sendResult>>
                 ELSE DirectRefresh(s1)
       ELSE DirectRefresh(state)
  /\ UNCHANGED <<now, variant, expCall, epCall>>
  /\ UNCHANGED bgVars
  /\ UNCHANGED loginVars

\* ensureValidToken, step 2: the refresh response arrives
EnsureResponse(o) ==
  /\ pc = "ev_fetch"
  /\ IF o.kind = "ok"
       THEN LET s2 == PopupApplyRefresh(state, o.data)
            IN /\ state' = s2
               /\ store' = PopupPersist(variant, store, s2)
               /\ status' = "Token refreshed successfully"
               /\ evPath' = "direct"
               /\ pc' = "send_fetch"
               /\ UNCHANGED <<view, sendResult>>
       ELSE EnsureFails(state)
  /\ UNCHANGED <<now, variant, reply, expCall, epCall>>
  /\ UNCHANGED bgVars
  /\ UNCHANGED loginVars

\* POST /extract-from-html: fetch rejects, or a status; a 200 body parses to
\* an object with an id, or does not parse
ExtractOutcomes == {"neterr", "200_json", "200_text", "401", "403", "500"}

\* sendToEndpoint: the result for a response
Classify(x) ==
  CASE x = "neterr"        -> "network_error"
    [] x \in {"401", "403"} -> "auth_error"
    [] x = "500"           -> "http_error"
    [] x = "200_json"      -> "ok"
    [] x = "200_text"      -> "ok_nodata"

OnAuthRejected_Logout(st, sto, vw) ==
  [state |-> LogoutState(st), store |-> LogoutStore(sto), view |-> "auth"]

\* sendToEndpoint on 401 or 403: throws; handleLogout() is commented out
OnAuthRejected(st, sto, vw) == [state |-> st, store |-> sto, view |-> vw]

\* handleAddRecipe: state.lastCreatedRecipeId = sendResult.data?.id
RecipeId(x) == IF x = "200_json" THEN Str(<<"7">>) ELSE Undef

\* The extract response arrives: sendToEndpoint returns, handleAddRecipe goes on.
SendResponse(x) ==
  /\ pc = "send_fetch"
  /\ pc' = "ready"
  /\ sendResult' = Classify(x)
  /\ IF x \in {"401", "403"}
       THEN LET r == OnAuthRejected(state, store, view)
            IN state' = r.state /\ store' = r.store /\ view' = r.view
       ELSE /\ state' = IF x \in {"200_json", "200_text"}
                          THEN [state EXCEPT !["lastCreatedRecipeId"] = RecipeId(x)]
                          ELSE state
            /\ UNCHANGED <<store, view>>
  /\ UNCHANGED <<now, variant, status, reply, evPath, expCall, epCall>>
  /\ UNCHANGED bgVars
  /\ UNCHANGED loginVars

\* A response to POST /extract-from-html as sendToEndpoint sees it: fetch or
\* response.text() rejects ("neterr"), or a status with a body that
\* JSON.parse accepts or not
ExtractStatuses ==
  {200, 201, 204, 299, 300, 302, 304, 400, 401, 402, 403, 404, 409, 422, 429,
   500, 502, 503}

ExtractResponses ==
  { [kind |-> "neterr", status |-> 0, parses |-> FALSE] }
  \cup { [kind |-> "http", status |-> s, parses |-> p] :
           s \in ExtractStatuses, p \in BOOLEAN }

NoResponse == [kind |-> "none", status |-> 0, parses |-> FALSE]

\* response.ok
ResponseOk(code) == 200 <= code /\ code <= 299

IsAuthRejection_401Only(code) == code = 401

\* response.status === 401 || response.status === 403
IsAuthRejection(code) == code = 401 \/ code = 403

\* The value JSON.parse gave for a body it accepts
ParsedData == [t |-> "obj", s |-> <<>>, n |-> 0]

\* sendToEndpoint after ensureValidToken() returned true: the object it
\* returns for a response. error is the message, in parts
SendToEndpointResult(resp) ==
  IF resp.kind = "neterr"
    THEN [success |-> FALSE, error |-> <<"NetworkError">>, status |-> Undef,
          data |-> Undef]
  ELSE IF IsAuthRejection(resp.status)
    THEN [success |-> FALSE,
          error |-> <<"API authentication failed. Check console for details.">>,
          status |-> Undef, data |-> Undef]
  ELSE IF ~ResponseOk(resp.status)
    THEN [success |-> FALSE,
          error |-> <<"HTTP error! status: ", NatToString(resp.status)>>,
          status |-> Undef, data |-> Undef]
  ELSE [success |-> TRUE, error |-> <<>>, status |-> Num(resp.status),
        data |-> IF resp.parses THEN ParsedData ELSE Null]

NoEpCall(resp) == [resp |-> resp, called |-> FALSE,
                   result |-> [success |-> FALSE, error |-> <<>>,
                               status |-> Undef, data |-> Undef]]

\* The logout button: handleLogout
ClickLogout ==
  /\ pc = "ready"
  /\ view = "recipe"
  /\ state' = LogoutState(state)
  /\ store' = LogoutStore(store)
  /\ view' = "auth"
  /\ UNCHANGED <<now, variant, status, pc, reply, evPath, sendResult, expCall, epCall>>
  /\ UNCHANGED bgVars
  /\ UNCHANGED loginVars

\* The popup is closed; its context and cache are gone.
PopupClose ==
  /\ pc = "ready"
  /\ \A i \in DOMAIN cb : cb[i] = "idle"
  /\ push = 0
  /\ login.phase \in {"idle", "stopped"}
  /\ pc' = "closed"
  /\ state' = InitState
  /\ view' = "none"
  /\ status' = "none"
  /\ evPath' = "none"
  /\ sendResult' = "none"
  /\ login' = [login EXCEPT !.phase = "idle"]
  /\ UNCHANGED <<now, store, variant, reply, cb, tabStorage, expCall, epCall, push>>
  /\ UNCHANGED bgVars

----------------------------------------------------------------------------
(* Login flow: handleLogin and its poll of the auth tab *)

Bundle(j, r, e) == [jwtToken |-> j, refreshToken |-> r, expiresAt |-> e]

\* localStorage.getItem returns null for a key that is not set
EmptyTab == Bundle(Null, Null, Null)

CompleteBundle == Bundle(A1, R1, Str(NatToString(FarExpiry)))

\* What the auth page may deposit: the complete bundle, one that is
\* already expired, an access token alone, and an access token with its
\* expiry but no refresh token.
TabBundles ==
  { CompleteBundle,
    Bundle(A1, R1, Str(<<"0">>)),
    Bundle(A1, Null, Null),
    Bundle(A1, Null, Str(NatToString(FarExpiry))) }

IdleLogin == [tab |-> "none", phase |-> "idle", attempts |-> 0,
              commits |-> 0, timeouts |-> 0, tabCloses |-> 0, erred |-> FALSE]

PollCommit_DropsRefresh(sto, tokenData) ==
  StorageSet(sto, [jwtToken       |-> tokenData.jwtToken,
                   tokenExpiresAt |-> tokenData.expiresAt])

\* The poll callback found tokens: storage.local.set
PollCommit(sto, tokenData) ==
  StorageSet(sto, [jwtToken       |-> tokenData.jwtToken,
                   refreshToken   |-> tokenData.refreshToken,
                   tokenExpiresAt |-> tokenData.expiresAt])

\* if (tabResult?.[0]?.jwtToken)
PollFound(ok, tabResult) == ok /\ Truthy(tabResult.jwtToken)

\* if (attempts >= CONFIG.authTimeout)
TimedOut(attempts) == attempts >= authTimeout

StopAndClose_KeepsPolling(l) ==
  [l EXCEPT !.tab = "closed",
            !.tabCloses = IF l.tab = "open" THEN @ + 1 ELSE @]

\* clearInterval(checkInterval); tabs.remove(tab.id), whose error is ignored
StopAndClose(l) ==
  [l EXCEPT !.phase = "stopped",
            !.tab = "closed",
            !.tabCloses = IF l.tab = "open" THEN @ + 1 ELSE @]

\* The login button: handleLogin; tabs.create resolves or rejects
HandleLogin(created) ==
  /\ pc = "ready"
  /\ view = "auth"
  /\ login.phase \in {"idle", "stopped"}
  /\ \A i \in DOMAIN cb : cb[i] = "idle"
  /\ IF created
       THEN /\ login' = [IdleLogin EXCEPT !.tab = "open", !.phase = "delay"]
            /\ tabStorage' = EmptyTab
            /\ status' = "Monitoring auth tab..."
       ELSE /\ status' = "Login failed"
            /\ UNCHANGED <<login, tabStorage>>
  /\ UNCHANGED <<now, store, variant, state, view, pc, reply, evPath,
                 sendResult, cb, expCall, epCall, push>>
  /\ UNCHANGED bgVars

\* The setTimeout of handleLogin fires: attempts = 0, setInterval
LoginDelayElapsed ==
  /\ login.phase = "delay"
  /\ login' = [login EXCEPT !.phase = "polling", !.attempts = 0]
  /\ UNCHANGED <<now, store, cb, tabStorage, expCall, epCall, push>>
  /\ UNCHANGED popupVars
  /\ UNCHANGED bgVars

\* The interval fires: attempts++, tabs.executeScript is sent
PollTick(i) ==
  /\ login.phase = "polling"
  /\ cb[i] = "idle"
  /\ login.attempts < authTimeout + MaxPending
  /\ login' = [login EXCEPT !.attempts = @ + 1]
  /\ cb' = [cb EXCEPT ![i] = "exec"]
  /\ UNCHANGED <<now, store, tabStorage, expCall, epCall, push>>
  /\ UNCHANGED popupVars
  /\ UNCHANGED bgVars

PollError_EndsFlow(l, ok) ==
  IF ok THEN l ELSE [l EXCEPT !.erred = TRUE, !.phase = "stopped"]

\* catch (e) {} around executeScript: the error is dropped; erred notes that
\* a call of this login has failed
PollError(l, ok) == IF ok THEN l ELSE [l EXCEPT !.erred = TRUE]

\* executeScript settles: with the tab's local storage, or with an error
PollExec(i, ok) ==
  /\ cb[i] = "exec"
  /\ ok => login.tab = "open"
  /\ LET l == PollError(login, ok)
     IN IF PollFound(ok, tabStorage)
          THEN LET r == CasRead(variant, state, PollCommit(store, tabStorage),
                                view, now)
               IN /\ state' = r.state
                  /\ store' = r.store
                  /\ view' = r.view
                  /\ status' = r.status
                  /\ IF r.next = "fetch"
                       THEN /\ cb' = [cb EXCEPT ![i] = "cas_fetch"]
                            /\ login' = [l EXCEPT !.commits = @ + 1]
                       ELSE /\ cb' = [cb EXCEPT ![i] = "idle"]
                            /\ login' = [StopAndClose(l) EXCEPT !.commits = @ + 1]
          ELSE /\ cb' = [cb EXCEPT ![i] = "idle"]
               /\ IF TimedOut(l.attempts)
                    THEN /\ login' = [StopAndClose(l) EXCEPT !.timeouts = @ + 1]
                         /\ status' = "OAuth timeout - please try again"
                    ELSE login' = l /\ UNCHANGED status
               /\ UNCHANGED <<state, store, view>>
  /\ UNCHANGED <<now, variant, pc, reply, evPath, sendResult, tabStorage, expCall, epCall, push>>
  /\ UNCHANGED bgVars

\* checkAuthState of the poll callback: the refresh response arrives
PollCasResponse(i, o) ==
  /\ cb[i] = "cas_fetch"
  /\ LET r == CasResponse(variant, state, store, o)
     IN /\ state' = r.state
        /\ store' = r.store
        /\ view' = r.view
        /\ status' = r.status
  /\ cb' = [cb EXCEPT ![i] = "idle"]
  /\ login' = StopAndClose(login)
  /\ UNCHANGED <<now, variant, pc, reply, evPath, sendResult, tabStorage, expCall, epCall, push>>
  /\ UNCHANGED bgVars

\* The auth page writes its tokens to the tab's local storage.
TabDeposit(b) ==
  /\ login.tab = "open"
  /\ tabStorage = EmptyTab
  /\ tabStorage' = b
  /\ UNCHANGED <<now, store, login, cb, expCall, epCall, push>>
  /\ UNCHANGED popupVars
  /\ UNCHANGED bgVars

\* The user closes the auth tab.
UserClosesTab ==
  /\ login.tab = "open"
  /\ login' = [login EXCEPT !.tab = "closed"]
  /\ UNCHANGED <<now, store, cb, tabStorage, expCall, epCall, push>>
  /\ UNCHANGED popupVars
  /\ UNCHANGED bgVars

----------------------------------------------------------------------------
(* isTokenExpired on its own: inputs drawn at the start, then the calls *)

\* Expiry values in epoch seconds, around both buffers for each clock value
ExpirySeconds ==
  {0, 1, 299, 300, 301, 302, 599, 600, 601, 602, 899, 900, 901, 902,
   1199, 1200, 1201, 1202, FarExpiry}

\* Clock values in ms, on and off a whole second
NowInputs == {0, 500, 1000, 1999, TickMs}

\* An input and, when it is an integer, the integer it stands for
ExpiryInputs ==
  { [v |-> Num(n), isInt |-> TRUE, secs |-> n] : n \in ExpirySeconds }
  \cup { [v |-> Str(NumToString(n)), isInt |-> TRUE, secs |-> n] : n \in ExpirySeconds }
  \cup { [v |-> x, isInt |-> FALSE, secs |-> 0] :
           x \in {Undef, Null, Str(<<>>), Str(<<"a", "b", "c">>),
                  Str(<<"1", "2", "x">>), Str(<<" ", "7">>),
                  Str(<<"-", "5">>)} }

NoCall(in) == [ctx |-> "none", arg |-> in.v, isInt |-> in.isInt, secs |-> in.secs,
               now |-> 0, result |-> FALSE]

NoInput == [v |-> Undef, isInt |-> FALSE, secs |-> 0]

CallBgIsTokenExpired ==
  /\ expCall' = [expCall EXCEPT !.ctx = "bg",
                                !.now = now,
                                !.result = BgIsTokenExpired(store.tokenExpiresAt, now)]
  /\ UNCHANGED <<now, store, epCall>>
  /\ UNCHANGED popupVars
  /\ UNCHANGED bgVars
  /\ UNCHANGED loginVars

CallPopupIsTokenExpired ==
  /\ expCall' = [expCall EXCEPT !.ctx = "popup",
                                !.now = now,
                                !.result = PopupIsTokenExpired(state, now)]
  /\ UNCHANGED <<now, store, epCall>>
  /\ UNCHANGED popupVars
  /\ UNCHANGED bgVars
  /\ UNCHANGED loginVars

----------------------------------------------------------------------------
(* Specifications *)

StoredTokens(j, r, e) ==
  [k \in StoreKeys |->
     CASE k = "jwtToken" -> j
       [] k = "refreshToken" -> r
       [] k = "tokenExpiresAt" -> e
       [] OTHER -> Undef]

\* Stores a login leaves behind: none, tokens that expire SoonExpiry seconds
\* after the epoch, tokens that have expired
InitialStores ==
  { EmptyStore,
    StoredTokens(A1, R1, Str(NatToString(SoonExpiry))),
    StoredTokens(A1, R1, Str(<<"0">>)) }

InitPopupClosed ==
  /\ variant \in Variants
  /\ state = InitState
  /\ view = "none"
  /\ status = "none"
  /\ pc = "closed"
  /\ reply = "none"
  /\ evPath = "none"
  /\ sendResult = "none"

InitLoginIdle ==
  /\ login = IdleLogin
  /\ cb = [i \in 1..MaxPending |-> "idle"]
  /\ tabStorage = EmptyTab
  /\ push = 0

\* The coordinator has run init() once: its timer is armed.
InitBgArmed ==
  /\ chk = [c \in CheckIds |-> IdleCheck]
  /\ refreshTimer = 1
  /\ timers = {1}
  /\ nextTimerId = 2
  /\ bgInit = [i \in InitCalls |-> IF i = "load" THEN 1 ELSE 0]
  /\ sched = NoSched

\* The popup with the coordinator behind it
Init ==
  /\ now = 0
  /\ store \in InitialStores
  /\ InitPopupClosed
  /\ InitBgArmed
  /\ InitLoginIdle
  /\ expCall = NoCall(NoInput)
  /\ epCall = NoEpCall(NoResponse)

Next ==
  \/ \E d \in BOOLEAN : PopupOpen(d)
  \/ InitCheckAuthState
  \/ \E o \in RefreshOutcomes : InitCasResponse(o)
  \/ \E d \in BOOLEAN : AddRecipe(d)
  \/ EnsureAfterMessage
  \/ \E o \in RefreshOutcomes : EnsureResponse(o)
  \/ \E x \in ExtractOutcomes : SendResponse(x)
  \/ ClickLogout
  \/ PopupClose
  \/ BgOnMessage
  \/ TimerFire
  \/ \E c \in {"msg", "timer"}, o \in RefreshOutcomes : CheckResponse(c, o)
  \/ Tick

Spec == Init /\ [][Next]_vars

\* The popup with the coordinator, where a delivered message reaches the
\* listener and the coordinator's request settles
SpecLive ==
  /\ Init
  /\ [][Next]_vars
  /\ WF_vars(BgOnMessage)
  /\ WF_vars(\E o \in RefreshOutcomes : CheckResponse("msg", o))

\* The coordinator from its start: init() on load, onStartup and onInstalled
InitBg ==
  /\ now = 0
  /\ store \in InitialStores
  /\ InitPopupClosed
  /\ chk = [c \in CheckIds |-> IdleCheck]
  /\ refreshTimer = 0
  /\ timers = {}
  /\ nextTimerId = 1
  /\ bgInit = [i \in InitCalls |-> 0]
  /\ sched = NoSched
  /\ InitLoginIdle
  /\ expCall = NoCall(NoInput)
  /\ epCall = NoEpCall(NoResponse)

NextBg ==
  \/ \E i \in InitCalls : BgInit(i)
  \/ TimerFire
  \/ \E c \in InitCalls \cup {"timer"}, o \in RefreshOutcomes : CheckResponse(c, o)
  \/ Tick

SpecBg == InitBg /\ [][NextBg]_vars

\* The login flow, from the popup showing the login button over an empty store
InitLogin ==
  /\ now = 0
  /\ store = EmptyStore
  /\ variant \in Variants
  /\ state = Reload(variant, InitState, EmptyStore)
  /\ view = "auth"
  /\ status = "Ready!"
  /\ pc = "ready"
  /\ reply = "none"
  /\ evPath = "none"
  /\ sendResult = "none"
  /\ InitBgArmed
  /\ InitLoginIdle
  /\ expCall = NoCall(NoInput)
  /\ epCall = NoEpCall(NoResponse)

NextLogin ==
  \/ \E c \in BOOLEAN : HandleLogin(c)
  \/ LoginDelayElapsed
  \/ \E i \in 1..MaxPending : PollTick(i)
  \/ \E i \in 1..MaxPending, ok \in BOOLEAN : PollExec(i, ok)
  \/ \E i \in 1..MaxPending, o \in RefreshOutcomes : PollCasResponse(i, o)
  \/ \E b \in TabBundles : TabDeposit(b)
  \/ UserClosesTab
  \/ ClickLogout

SpecLogin == InitLogin /\ [][NextLogin]_vars

\* isTokenExpired alone
InitExpiry ==
  /\ now \in NowInputs
  /\ \E in \in ExpiryInputs :
       /\ store = [EmptyStore EXCEPT !["tokenExpiresAt"] = in.v]
       /\ state = [InitState EXCEPT !["tokenExpiresAt"] = in.v]
       /\ expCall = NoCall(in)
  /\ epCall = NoEpCall(NoResponse)
  /\ variant \in Variants
  /\ view = "none"
  /\ status = "none"
  /\ pc = "closed"
  /\ reply = "none"
  /\ evPath = "none"
  /\ sendResult = "none"
  /\ InitBgArmed
  /\ InitLoginIdle

NextExpiry ==
  \/ CallBgIsTokenExpired
  \/ CallPopupIsTokenExpired

SpecExpiry == InitExpiry /\ [][NextExpiry]_vars

----------------------------------------------------------------------------
(* The coordinator over any stored record, any 2xx body and failing storage *)

\* Records a login or a pushed EXTENSION_AUTH_SUCCESS message can leave in
\* the store: any of the three keys may be missing, the refresh token may
\* be null
AnyStores ==
  { StoredTokens(j, r, e) :
      j \in {Undef, A1},
      r \in {Undef, Null, R1},
      e \in {Undef, Str(<<"0">>), Str(NatToString(SoonExpiry)),
             Str(NatToString(FarExpiry))} }

\* 2xx bodies that response.json() parses: the contract's, and objects that
\* lack expires_at, lack all but access_token, or are empty
AnyBodies ==
  RefreshBodies \cup { Body(A2, R2, Undef), Body(A2, Undef, Undef), NoBody }

AnyOutcomes ==
  { [kind |-> k, data |-> NoBody] : k \in {"neterr", "http", "badjson"} }
  \cup { [kind |-> "ok", data |-> b] : b \in AnyBodies }

\* The callers of checkAndRefreshToken in this specification
FaultCallers == {"msg", "timer", "load"}

\* refreshAccessToken with storage calls that may reject: "true" after the
\* set, "false" after the catch block's remove, "throw" when that remove
\* rejects
RefreshAccessToken(sto, o, setOk, removeOk) ==
  IF o.kind = "ok" /\ setOk
    THEN [store |-> BgRefreshSuccess(sto, o.data), result |-> "true"]
    ELSE IF removeOk
           THEN [store |-> BgRefreshFailure(sto), result |-> "false"]
           ELSE [store |-> sto, result |-> "throw"]

CheckSettles_Propagates(threw) == IF threw THEN "rejected" ELSE "resolved"

\* checkAndRefreshToken: its body is one try block with an empty catch
CheckSettles(threw) == "resolved"

\* The promise of check c settles; its then() callback runs when it resolves
Settle(c, threw, last) ==
  LET s == CheckSettles(threw)
  IN /\ chk' = [chk EXCEPT ![c] = [pc |-> "idle", rt |-> Undef,
                                   last |-> IF s = "rejected" THEN "rejected"
                                                              ELSE last]]
     /\ IF s = "resolved"
          THEN Completed(c)
          ELSE UNCHANGED <<reply, refreshTimer, timers, nextTimerId>>

\* A context sends {action: "refreshToken"} or {action: "checkTokenStatus"}
MessageSent ==
  /\ reply \in {"none", "ack"}
  /\ reply' = "pending"
  /\ UNCHANGED <<now, store, variant, state, view, status, pc, evPath,
                 sendResult, expCall, epCall>>
  /\ UNCHANGED bgVars
  /\ UNCHANGED loginVars

\* checkAndRefreshToken is called: storage.local.get resolves or rejects
FaultyCheckBegin(c, readOk) ==
  /\ chk[c].pc = "idle"
  /\ CASE c = "msg"   -> reply = "pending" /\ UNCHANGED bgInit
       [] c = "timer" -> timers # {} /\ UNCHANGED bgInit
       [] OTHER       -> /\ bgInit[c] < MaxInitRuns
                         /\ bgInit' = [bgInit EXCEPT ![c] = @ + 1]
  /\ IF readOk THEN CheckBegin(c) ELSE Settle(c, TRUE, "swallowed")
  /\ UNCHANGED <<now, store, variant, state, view, status, pc, evPath,
                 sendResult, expCall, epCall, sched>>
  /\ UNCHANGED loginVars

\* The refresh response arrives; storage.local.set and remove may reject
FaultyCheckResponse(c, o, setOk, removeOk) ==
  /\ chk[c].pc = "fetching"
  /\ LET r == RefreshAccessToken(store, o, setOk, removeOk)
     IN /\ store' = r.store
        /\ Settle(c, r.result = "throw",
                  CASE r.result = "true"  -> "refreshed"
                    [] r.result = "false" -> "failed"
                    [] OTHER              -> "swallowed")
  /\ UNCHANGED <<now, variant, state, view, status, pc, evPath, sendResult,
                 bgInit, expCall, epCall, sched>>
  /\ UNCHANGED loginVars

InitFaults ==
  /\ now = 0
  /\ store \in AnyStores
  /\ InitPopupClosed
  /\ chk = [c \in CheckIds |-> IdleCheck]
  /\ refreshTimer = 0
  /\ timers = {}
  /\ nextTimerId = 1
  /\ bgInit = [i \in InitCalls |-> 0]
  /\ sched = NoSched
  /\ InitLoginIdle
  /\ expCall = NoCall(NoInput)
  /\ epCall = NoEpCall(NoResponse)

NextFaults ==
  \/ MessageSent
  \/ \E c \in FaultCallers, readOk \in BOOLEAN : FaultyCheckBegin(c, readOk)
  \/ \E c \in FaultCallers, o \in AnyOutcomes, setOk \in BOOLEAN,
        removeOk \in BOOLEAN : FaultyCheckResponse(c, o, setOk, removeOk)
  \/ Tick

SpecFaults == InitFaults /\ [][NextFaults]_vars

----------------------------------------------------------------------------
(* The coordinator's timer against the clock, no popup open *)

TimeStep   == 60 * 1000
MaxMinutes == 16

\* A refresh exchange settles within the margin the buffer leaves after one
\* timer period
MaxLatency == TOKEN_BUFFER - REFRESH_INTERVAL

\* Seconds of validity the backend gives a new token, counted from its
\* response: just beyond the coordinator's buffer, or an hour
Lifetimes == {(TOKEN_BUFFER \div 1000) + 1, 60 * 60}

\* Records in the store when init() arms the timer, which its check found
\* not expiring: complete ones, and the access token without refresh token
\* that the login poll can leave behind
ArmedStores ==
  { StoredTokens(A1, r, Str(NatToString(e))) :
      r \in {R1, Null}, e \in {(TOKEN_BUFFER \div 1000) + 1, SoonExpiry} }

\* The interval callback runs when it is due: checkAndRefreshToken up to its
\* fetch; callbacks whose request has not settled do not hold it back
TimedFire ==
  /\ timers # {}
  /\ now = sched.due
  /\ sched' = [due |-> sched.due + REFRESH_INTERVAL,
               flights |-> IF CheckDecision(store, now) = "refresh"
                             THEN sched.flights
                                    \cup {[sent |-> now, rt |-> store.refreshToken]}
                             ELSE sched.flights]
  /\ UNCHANGED <<now, store, chk, refreshTimer, timers, nextTimerId, bgInit,
                 expCall, epCall>>
  /\ UNCHANGED popupVars
  /\ UNCHANGED loginVars

\* The backend answers a pending request with new tokens valid for life
\* seconds: refreshAccessToken stores them
TimedResponse(life) ==
  /\ \E f \in sched.flights : sched' = [sched EXCEPT !.flights = @ \ {f}]
  /\ store' = BgRefreshSuccess(store, Body(A2, R2, Num((now \div 1000) + life)))
  /\ UNCHANGED <<now, chk, refreshTimer, timers, nextTimerId, bgInit, expCall, epCall>>
  /\ UNCHANGED popupVars
  /\ UNCHANGED loginVars

\* A minute passes: not past a firing of the timer that is due, nor past
\* the time a pending request takes at most
TimedTick ==
  /\ now < MaxMinutes * TimeStep
  /\ now + TimeStep <= sched.due
  /\ \A f \in sched.flights : (now + TimeStep) - f.sent <= MaxLatency
  /\ now' = now + TimeStep
  /\ UNCHANGED <<store, expCall, epCall>>
  /\ UNCHANGED popupVars
  /\ UNCHANGED bgVars
  /\ UNCHANGED loginVars

InitTimed ==
  /\ now = 0
  /\ store \in ArmedStores
  /\ InitPopupClosed
  /\ chk = [c \in CheckIds |-> IdleCheck]
  /\ refreshTimer = 1
  /\ timers = {1}
  /\ nextTimerId = 2
  /\ bgInit = [i \in InitCalls |-> IF i = "load" THEN 1 ELSE 0]
  /\ sched = [due |-> REFRESH_INTERVAL, flights |-> {}]
  /\ InitLoginIdle
  /\ expCall = NoCall(NoInput)
  /\ epCall = NoEpCall(NoResponse)

NextTimed ==
  \/ TimedFire
  \/ \E life \in Lifetimes : TimedResponse(life)
  \/ TimedTick

SpecTimed == InitTimed /\ [][NextTimed]_vars

\* The popup with the coordinator behind it, over any stored record
InitAny ==
  /\ now = 0
  /\ store \in AnyStores
  /\ InitPopupClosed
  /\ InitBgArmed
  /\ InitLoginIdle
  /\ expCall = NoCall(NoInput)
  /\ epCall = NoEpCall(NoResponse)

SpecAny == InitAny /\ [][Next]_vars

----------------------------------------------------------------------------
(* The push path: the popup's EXTENSION_AUTH_SUCCESS listener *)

\* How the sender names the fields of message.tokens: as the listener reads
\* them, or as the message contract names them
TokenShapes == {"listener", "contract"}

\* message.tokens for a token bundle b
PushTokens(shape, b) ==
  IF shape = "listener"
    THEN [jwtToken       |-> b.jwtToken,
          refreshToken   |-> b.refreshToken,
          tokenExpiresAt |-> b.expiresAt]
    ELSE [accessToken  |-> b.jwtToken,
          refreshToken |-> b.refreshToken,
          expiresAt    |-> b.expiresAt]

\* Bundles a page may push: those it may deposit, and one without access
\* token
PushBundles ==
  TabBundles \cup { Bundle(Null, R1, Str(NatToString(FarExpiry))) }

PushMessages == { [shape |-> s, bundle |-> b] : s \in TokenShapes, b \in PushBundles }

\* The listener's storage.local.set
PushCommit(sto, tokens) ==
  StorageSet(sto, [jwtToken       |-> Prop(tokens, "jwtToken"),
                   refreshToken   |-> Prop(tokens, "refreshToken"),
                   tokenExpiresAt |-> Prop(tokens, "tokenExpiresAt")])

\* The listener receives EXTENSION_AUTH_SUCCESS: storage.local.set, then
\* checkAuthState(), which it does not await
PushReceived(m) ==
  /\ pc = "ready"
  /\ variant = "state"
  /\ LET r == CasRead(variant, state,
                      PushCommit(store, PushTokens(m.shape, m.bundle)), view, now)
     IN /\ state' = r.state
        /\ store' = r.store
        /\ view' = r.view
        /\ status' = r.status
        /\ IF r.next = "fetch"
             THEN push < MaxPending /\ push' = push + 1
             ELSE push' = push
  /\ UNCHANGED <<now, variant, pc, reply, evPath, sendResult, login, cb,
                 tabStorage, expCall, epCall>>
  /\ UNCHANGED bgVars

\* checkAuthState of the listener: the refresh response arrives
PushCasResponse(o) ==
  /\ push > 0
  /\ push' = push - 1
  /\ LET r == CasResponse(variant, state, store, o)
     IN /\ state' = r.state
        /\ store' = r.store
        /\ view' = r.view
        /\ status' = r.status
  /\ UNCHANGED <<now, variant, pc, reply, evPath, sendResult, login, cb,
                 tabStorage, expCall, epCall>>
  /\ UNCHANGED bgVars

\* The popup of the build with the listener, after its init(): the login
\* button over an empty store, or the recipe view over tokens not expiring
InitPush ==
  /\ now = 0
  /\ store \in {EmptyStore, StoredTokens(A1, R1, Str(NatToString(SoonExpiry)))}
  /\ variant = "state"
  /\ state = Reload(variant, InitState, store)
  /\ view = CasRead(variant, InitState, store, "none", now).view
  /\ status = "Ready!"
  /\ pc = "ready"
  /\ reply = "none"
  /\ evPath = "none"
  /\ sendResult = "none"
  /\ InitBgArmed
  /\ InitLoginIdle
  /\ expCall = NoCall(NoInput)
  /\ epCall = NoEpCall(NoResponse)

NextPush ==
  \/ \E m \in PushMessages : PushReceived(m)
  \/ \E o \in RefreshOutcomes : PushCasResponse(o)
  \/ ClickLogout
  \/ Tick

SpecPush == InitPush /\ [][NextPush]_vars

\* Who posts a window message in a page the content script runs in: the
\* authentication page, or any other page or frame
Posters == {"auth_page", "other_page"}

\* event.data.type of a window message
WindowTypes == {"EXTENSION_AUTH_SUCCESS", "OTHER"}

\* The content script's window listener: whether it relays the message with
\* runtime.sendMessage
Relays(poster, type) == type = "EXTENSION_AUTH_SUCCESS"

\* A window message is posted; when the content script relays it, the popup's
\* listener receives {type, tokens: event.data.tokens}
WindowMessage(poster, type, m) ==
  /\ Relays(poster, type)
  /\ PushReceived(m)

NextRelay ==
  \/ \E p \in Posters, ty \in WindowTypes, m \in PushMessages :
        WindowMessage(p, ty, m)
  \/ \E o \in RefreshOutcomes : PushCasResponse(o)
  \/ ClickLogout
  \/ Tick

SpecRelay == InitPush /\ [][NextRelay]_vars

\* The popup with the coordinator behind it, over any stored record and any
\* 2xx body
NextExchange ==
  \/ \E d \in BOOLEAN : PopupOpen(d)
  \/ InitCheckAuthState
  \/ \E o \in AnyOutcomes : InitCasResponse(o)
  \/ \E d \in BOOLEAN : AddRecipe(d)
  \/ EnsureAfterMessage
  \/ \E o \in AnyOutcomes : EnsureResponse(o)
  \/ \E x \in ExtractOutcomes : SendResponse(x)
  \/ ClickLogout
  \/ PopupClose
  \/ BgOnMessage
  \/ TimerFire
  \/ \E c \in {"msg", "timer"}, o \in AnyOutcomes : CheckResponse(c, o)
  \/ Tick

SpecExchange == InitAny /\ [][NextExchange]_vars

----------------------------------------------------------------------------
(* The popup with storage calls that may reject *)

\* handleLogout with a storage.local.remove that may reject: the rejection
\* leaves the try block before the cache is reset and the section switched
FaultyLogout(st, sto, vw, removeOk) ==
  IF removeOk
    THEN [state |-> LogoutState(st), store |-> LogoutStore(sto), view |-> "auth"]
    ELSE [state |-> st, store |-> sto, view |-> vw]

LogoutThrows_NoCatch(removeOk) == ~removeOk

\* handleLogout: its body is one try block with an empty catch
LogoutThrows(removeOk) == FALSE

\* refreshAccessToken of the popup after its response, with a
\* storage.local.set that may reject: the cache is assigned before the
\* set; the catch block returns false
FaultyPopupRefresh(v, st, sto, o, setOk) ==
  IF o.kind = "ok"
    THEN LET s2 == PopupApplyRefresh(st, o.data)
         IN IF setOk
              THEN [state |-> s2, store |-> PopupPersist(v, sto, s2),
                    result |-> TRUE]
              ELSE [state |-> s2, store |-> sto, result |-> FALSE]
    ELSE [state |-> st, store |-> sto, result |-> FALSE]

\* checkAuthState from its storage read, which may reject, to its first
\* fetch or to its end
FaultyCasRead(v, st, sto, vw, nowMs, getOk, removeOk) ==
  LET s1 == Reload(v, st, sto)
  IN IF ~getOk
       THEN [state |-> st, store |-> sto, view |-> "auth", status |-> "Error",
             next |-> "done"]
     ELSE IF /\ Truthy(s1.jwtToken)
             /\ PopupIsTokenExpired(s1, nowMs)
             /\ ~Truthy(s1.refreshToken)
       THEN LET l == FaultyLogout(s1, sto, vw, removeOk)
            IN IF LogoutThrows(removeOk)
                 THEN [state |-> l.state, store |-> l.store, view |-> "auth",
                       status |-> "Error", next |-> "done"]
                 ELSE [state |-> l.state, store |-> l.store, view |-> l.view,
                       status |-> "Token refresh failed, please login again",
                       next |-> "done"]
     ELSE CasRead(v, st, sto, vw, nowMs)

\* checkAuthState after the refresh response
FaultyCasResponse(v, st, sto, vw, o, setOk, removeOk) ==
  LET r == FaultyPopupRefresh(v, st, sto, o, setOk)
      l == FaultyLogout(r.state, r.store, vw, removeOk)
  IN IF r.result
       THEN [state |-> r.state, store |-> r.store, view |-> "recipe",
             status |-> "Authenticated! Showing recipe section"]
     ELSE IF LogoutThrows(removeOk)
       THEN [state |-> l.state, store |-> l.store, view |-> "auth",
             status |-> "Error"]
     ELSE [state |-> l.state, store |-> l.store, view |-> l.view,
           status |-> "Token refresh failed, please login again"]

FaultyInitCheckAuthState_WithoutWaiting(getOk, removeOk) ==
  /\ pc = "init_msg"
  /\ LET r == FaultyCasRead(variant, state, store, view, now, getOk, removeOk)
     IN /\ state' = r.state
        /\ store' = r.store
        /\ view' = r.view
        /\ IF r.next = "fetch"
             THEN pc' = "cas_fetch" /\ status' = r.status
             ELSE pc' = "ready" /\ status' = "Ready!"
  /\ reply' = IF reply = "pending" THEN "pending" ELSE "none"
  /\ UNCHANGED <<now, variant, evPath, sendResult, expCall, epCall>>
  /\ UNCHANGED bgVars
  /\ UNCHANGED loginVars

\* init() after the message: checkAuthState()
FaultyInitCheckAuthState(getOk, removeOk) ==
  /\ pc = "init_msg"
  /\ reply \in {"ack", "error"}
  /\ LET r == FaultyCasRead(variant, state, store, view, now, getOk, removeOk)
     IN /\ state' = r.state
        /\ store' = r.store
        /\ view' = r.view
        /\ IF r.next = "fetch"
             THEN pc' = "cas_fetch" /\ status' = r.status
             ELSE pc' = "ready" /\ status' = "Ready!"
  /\ reply' = "none"
  /\ UNCHANGED <<now, variant, evPath, sendResult, expCall, epCall>>
  /\ UNCHANGED bgVars
  /\ UNCHANGED loginVars

\* checkAuthState of init(): the refresh response arrives
FaultyInitCasResponse(o, setOk, removeOk) ==
  /\ pc = "cas_fetch"
  /\ LET r == FaultyCasResponse(variant, state, store, view, o, setOk, removeOk)
     IN /\ state' = r.state
        /\ store' = r.store
        /\ view' = r.view
  /\ pc' = "ready"
  /\ status' = "Ready!"
  /\ UNCHANGED <<now, variant, reply, evPath, sendResult, expCall, epCall>>
  /\ UNCHANGED bgVars
  /\ UNCHANGED loginVars

\* ensureValidToken after refreshAccessToken() returned false: handleLogout(),
\* return false; an exception out of handleLogout would leave
\* ensureValidToken, which has no try block of its own there, and reach the
\* catch block of sendToEndpoint
FaultyEnsureFails(st, sto, removeOk) ==
  LET l == FaultyLogout(st, sto, view, removeOk)
  IN /\ state' = l.state
     /\ store' = l.store
     /\ view' = l.view
     /\ status' = "Token refresh failed, please login again"
     /\ evPath' = IF LogoutThrows(removeOk) THEN "rejected" ELSE "failed"
     /\ sendResult' = IF LogoutThrows(removeOk) THEN "error"
                                                ELSE "not_authenticated"
     /\ pc' = "ready"

\* ensureValidToken, step 2: refreshAccessToken() with the cached refresh token
FaultyDirectRefresh(st, removeOk) ==
  IF Truthy(st.refreshToken)
    THEN /\ state' = st
         /\ pc' = "ev_fetch"
         /\ UNCHANGED <<store, view, status, evPath, sendResult>>
    ELSE FaultyEnsureFails(st, store, removeOk)

\* ensureValidToken after the coordinator's answer, or after sendMessage
\* failed; the reload's storage.local.get is inside the try block
FaultyEnsureAfterMessage(getOk, removeOk) ==
  /\ pc = "ev_msg"
  /\ reply \in {"ack", "error"}
  /\ reply' = "none"
  /\ IF reply = "ack" /\ getOk
       THEN LET s1 == Reload(variant, state, store)
            IN IF AcceptReloaded(s1, now)
                 THEN /\ state' = s1
                      /\ status' = "Token refreshed successfully"
                      /\ evPath' = "coordinator"
                      /\ pc' = "send_fetch"
                      /\ UNCHANGED <<store, view, sendResult>>
                 ELSE FaultyDirectRefresh(s1, removeOk)
       ELSE FaultyDirectRefresh(state, removeOk)
  /\ UNCHANGED <<now, variant, expCall, epCall>>
  /\ UNCHANGED bgVars
  /\ UNCHANGED loginVars

\* ensureValidToken, step 2: the refresh response arrives
FaultyEnsureResponse(o, setOk, removeOk) ==
  /\ pc = "ev_fetch"
  /\ LET r == FaultyPopupRefresh(variant, state, store, o, setOk)
     IN IF r.result
          THEN /\ state' = r.state
               /\ store' = r.store
               /\ status' = "Token refreshed successfully"
               /\ evPath' = "direct"
               /\ pc' = "send_fetch"
               /\ UNCHANGED <<view, sendResult>>
          ELSE FaultyEnsureFails(r.state, r.store, removeOk)
  /\ UNCHANGED <<now, variant, reply, expCall, epCall>>
  /\ UNCHANGED bgVars
  /\ UNCHANGED loginVars

\* The logout button: handleLogout
FaultyClickLogout(removeOk) ==
  /\ pc = "ready"
  /\ view = "recipe"
  /\ LET l == FaultyLogout(state, store, view, removeOk)
     IN /\ state' = l.state
        /\ store' = l.store
        /\ view' = l.view
  /\ UNCHANGED <<now, variant, status, pc, reply, evPath, sendResult, expCall, epCall>>
  /\ UNCHANGED bgVars
  /\ UNCHANGED loginVars

NextPopupFaults ==
  \/ \E d \in BOOLEAN : PopupOpen(d)
  \/ \E g \in BOOLEAN, r \in BOOLEAN : FaultyInitCheckAuthState(g, r)
  \/ \E o \in RefreshOutcomes, s \in BOOLEAN, r \in BOOLEAN :
        FaultyInitCasResponse(o, s, r)
  \/ \E d \in BOOLEAN : AddRecipe(d)
  \/ \E g \in BOOLEAN, r \in BOOLEAN : FaultyEnsureAfterMessage(g, r)
  \/ \E o \in RefreshOutcomes, s \in BOOLEAN, r \in BOOLEAN :
        FaultyEnsureResponse(o, s, r)
  \/ \E x \in ExtractOutcomes : SendResponse(x)
  \/ \E r \in BOOLEAN : FaultyClickLogout(r)
  \/ PopupClose
  \/ BgOnMessage
  \/ \E o \in RefreshOutcomes : CheckResponse("msg", o)
  \/ Tick

\* Every awaited platform call settles: a delivered message is answered,
\* each response arrives and each continuation runs
SpecPopupFaults ==
  /\ Init
  /\ [][NextPopupFaults]_vars
  /\ WF_vars(BgOnMessage)
  /\ WF_vars(\E o \in RefreshOutcomes : CheckResponse("msg", o))
  /\ WF_vars(\E g \in BOOLEAN, r \in BOOLEAN : FaultyInitCheckAuthState(g, r))
  /\ WF_vars(\E o \in RefreshOutcomes, s \in BOOLEAN, r \in BOOLEAN :
               FaultyInitCasResponse(o, s, r))
  /\ WF_vars(\E g \in BOOLEAN, r \in BOOLEAN : FaultyEnsureAfterMessage(g, r))
  /\ WF_vars(\E o \in RefreshOutcomes, s \in BOOLEAN, r \in BOOLEAN :
               FaultyEnsureResponse(o, s, r))
  /\ WF_vars(\E x \in ExtractOutcomes : SendResponse(x))

----------------------------------------------------------------------------
(* sendToEndpoint on its own: a response drawn at the start, then the call *)

CallSendToEndpoint ==
  /\ ~epCall.called
  /\ epCall' = [epCall EXCEPT !.called = TRUE,
                              !.result = SendToEndpointResult(epCall.resp)]
  /\ UNCHANGED <<now, store, expCall, sched>>
  /\ UNCHANGED popupVars
  /\ UNCHANGED <<chk, refreshTimer, timers, nextTimerId, bgInit>>
  /\ UNCHANGED loginVars

\* The popup has sent the extract request with a cached token that is not
\* expiring
InitSend ==
  /\ now \in {0, TickMs}
  /\ store = StoredTokens(A1, R1, Str(NatToString(FarExpiry)))
  /\ variant \in Variants
  /\ state = Reload(variant, InitState, store)
  /\ view = "recipe"
  /\ status = "Ready!"
  /\ pc = "send_fetch"
  /\ reply = "none"
  /\ evPath = "fast"
  /\ sendResult = "none"
  /\ InitBgArmed
  /\ InitLoginIdle
  /\ expCall = NoCall(NoInput)
  /\ \E r \in ExtractResponses : epCall = NoEpCall(r)

NextSend == CallSendToEndpoint

SpecSend == InitSend /\ [][NextSend]_vars

----------------------------------------------------------------------------
(* Properties *)

Absent(v) == v.t \in {"undef", "null"}

StoreTokens(sto) == [k \in TokenKeys |-> sto[k]]

\* ensureValidToken returns true exactly when sendToEndpoint goes on to its
\* extract request.
EnsureReturnsTrue == pc # "send_fetch" /\ pc' = "send_fetch"

EnsureReturnsFalse ==
  pc \in {"ev_msg", "ev_fetch"} /\ pc' = "ready" /\ sendResult' = "not_authenticated"

\* C1: whenever ensureValidToken() returns true, the popup's cached access
\* token is present and not expiring (its expiry is later than now plus the
\* popup's 5 minute buffer).
C1_TrueMeansValidToken ==
  [][EnsureReturnsTrue =>
       (Truthy(state'.jwtToken) /\ ~PopupIsTokenExpired(state', now'))]_vars

\* C2: when a check of the coordinator found both tokens present and
\* expiring and its refresh exchange fails, none of the three token keys is
\* in the store when the check completes.
C2_RefreshFailureClearsStore ==
  [][\A c \in CheckIds :
       (chk[c].pc = "fetching" /\ chk'[c].pc = "idle" /\ chk'[c].last = "failed")
         => ~HasTokens(store')]_vars

C2_Witness ==
  \E c \in CheckIds : chk[c].last = "failed" /\ ~HasTokens(store)

\* C3: in every reachable state the store holds an access token if and
\* only if it holds a refresh token.
C3_TokensPaired == Truthy(store.jwtToken) <=> Truthy(store.refreshToken)

\* C4: after any number of calls of setupPeriodicRefresh(), at least one,
\* exactly one repeating timer is active, and it is the one refreshTimer
\* names; before the first call none is.
C4_OneActiveTimer ==
  IF nextTimerId > 1 THEN Cardinality(timers) = 1 /\ timers = {refreshTimer}
                     ELSE timers = {}

C4_Witness == nextTimerId > 2 /\ Cardinality(timers) = 1

\* C5: with an auth tab that never deposits tokens, the login poll never
\* runs more attempts than the ceiling of 30.
C5_NoAttemptBeyondCeiling ==
  tabStorage = EmptyTab => login.attempts <= authTimeout

\* C6: when a poll attempt below the ceiling finds the complete bundle
\* (access token, refresh token, far-future expiry), the store holds exactly
\* that access token, refresh token and expiry, polling has stopped and the
\* auth tab is closed.
C6_LoginSuccessCommits ==
  [][(login'.commits = login.commits + 1 /\ tabStorage = CompleteBundle
        /\ login.attempts < authTimeout)
       => /\ StoreTokens(store') = [jwtToken       |-> CompleteBundle.jwtToken,
                                    refreshToken   |-> CompleteBundle.refreshToken,
                                    tokenExpiresAt |-> CompleteBundle.expiresAt]
          /\ login'.phase = "stopped"
          /\ login'.tab = "closed"]_vars

C6_Witness ==
  /\ login.commits = 1
  /\ login.attempts = 3
  /\ login.phase = "stopped"
  /\ login.tab = "closed"
  /\ tabStorage = CompleteBundle
  /\ store.jwtToken = A1 /\ store.refreshToken = R1
  /\ store.tokenExpiresAt = CompleteBundle.expiresAt

\* C7: when sendToEndpoint() is called with a valid, non-expiring cached
\* token and the backend answers 401 or 403, the call returns a failure and
\* neither of its steps changes the store, the cached tokens or the view.
C7_AuthRejectionKeepsSession ==
  [][/\ (pc = "ready" /\ pc' = "send_fetch")
          => (store' = store /\ state' = state /\ view' = view)
     /\ (pc = "send_fetch" /\ evPath = "fast" /\ pc' = "ready"
           /\ sendResult' = "auth_error")
          => (store' = store /\ state' = state /\ view' = view)]_vars

C7_Witness ==
  /\ pc = "ready"
  /\ evPath = "fast"
  /\ sendResult = "auth_error"
  /\ view = "recipe"
  /\ Truthy(state.jwtToken)
  /\ Truthy(store.jwtToken)

\* C8: isTokenExpired returns true whenever the expiry is undefined, null or
\* the empty string, in the coordinator and in the popup, at any time.
C8_AbsentExpiryIsExpired ==
  (expCall.ctx # "none" /\ (Absent(expCall.arg) \/ expCall.arg = Str(<<>>)))
    => expCall.result

C8_Witness ==
  expCall.ctx = "popup" /\ expCall.arg = Null /\ expCall.result /\ expCall.now > 0

BufferSeconds(ctx) == IF ctx = "bg" THEN TOKEN_BUFFER \div 1000 ELSE tokenBuffer \div 1000

\* C9: for an integer expiry in epoch seconds, isTokenExpired is true exactly
\* when expiresAt <= now + B, with now in whole seconds and B the buffer of
\* the context (600 s in the coordinator, 300 s in the popup).
C9_BufferBoundary ==
  (expCall.ctx # "none" /\ expCall.isInt)
    => (expCall.result <=>
          expCall.secs <= (expCall.now \div 1000) + BufferSeconds(expCall.ctx))

C9_Witness ==
  /\ expCall.ctx = "bg"
  /\ expCall.isInt
  /\ expCall.arg.t = "str"
  /\ expCall.now = 1999
  /\ expCall.secs = (expCall.now \div 1000) + BufferSeconds("bg")
  /\ expCall.result

C11_RequestOnlyAfterTrue ==
  [][/\ (pc # "send_fetch" /\ pc' = "send_fetch")
          => evPath' \in {"fast", "coordinator", "direct"}
     /\ (pc \in {"ev_msg", "ev_fetch"} /\ evPath' = "failed")
          => (pc' = "ready" /\ sendResult' = "not_authenticated")]_vars

C11_Witness ==
  /\ evPath = "failed"
  /\ pc = "ready"
  /\ sendResult = "not_authenticated"
  /\ status = "Token refresh failed, please login again"
  /\ now > 0

\* C12: a check of the coordinator sends its refresh request only when the
\* store holds an access token and a refresh token and the token is
\* expiring; the step that starts a check, or ends it without a request,
\* leaves the store unchanged.
C12_RefreshOnlyWhenDue ==
  [][/\ \A c \in CheckIds :
          (chk[c].pc = "idle" /\ chk'[c].pc = "fetching")
            => /\ Truthy(store.jwtToken)
               /\ Truthy(store.refreshToken)
               /\ BgIsTokenExpired(store.tokenExpiresAt, now)
     /\ (\E c \in FaultCallers, readOk \in BOOLEAN : FaultyCheckBegin(c, readOk))
          => store' = store]_vars

C12_Witness ==
  /\ chk["timer"].last = "no_tokens"
  /\ Truthy(store.jwtToken)
  /\ ~Truthy(store.refreshToken)
  /\ BgIsTokenExpired(store.tokenExpiresAt, now)

\* What the store holds for a value v the backend returned: v itself, or the
\* decimal string of a number; nothing when the body has no such value
Holds(stored, v) ==
  CASE v.t = "undef" -> stored.t = "undef"
    [] v.t = "num"   -> stored = Str(NumToString(v.n))
    [] OTHER         -> stored = v

\* C13: when the coordinator's refresh exchange succeeds (2xx with a
\* parsable body), the store afterwards holds exactly the access token,
\* refresh token and expiry of the body, none of the previous three values.
C13_RefreshReplacesAll ==
  [][\A c \in FaultCallers, o \in AnyOutcomes, removeOk \in BOOLEAN :
       (o.kind = "ok" /\ FaultyCheckResponse(c, o, TRUE, removeOk))
         => /\ Holds(store'.jwtToken, o.data.access_token)
            /\ Holds(store'.refreshToken, o.data.refresh_token)
            /\ Holds(store'.tokenExpiresAt, o.data.expires_at)]_vars

\* C14: checkAndRefreshToken never rejects: whatever fails (the storage
\* read, the request, the body parse, the storage write or the removal), its
\* promise resolves.
C14_CheckNeverRejects == \A c \in CheckIds : chk[c].last # "rejected"

C14_Witness ==
  /\ chk["load"].last = "swallowed"
  /\ chk["msg"].last = "swallowed"
  /\ reply = "ack"
  /\ timers # {}
  /\ HasTokens(store)

\* C15: the coordinator handles refreshToken and checkTokenStatus alike:
\* for either action the listener's step is the same function of the store
\* and the clock. It sends the refresh request exactly when the stored
\* tokens are due, with the stored refresh token, and otherwise answers at
\* once; it leaves the store as it is.
C15_BothActionsAlike ==
  [][BgOnMessage =>
       /\ store' = store
       /\ IF CheckDecision(store, now) = "refresh"
            THEN /\ chk'["msg"].pc = "fetching"
                 /\ chk'["msg"].rt = store.refreshToken
                 /\ reply' = "pending"
            ELSE /\ chk'["msg"].pc = "idle"
                 /\ chk'["msg"].last = CheckDecision(store, now)
                 /\ reply' = "ack"]_vars

C15_Witness ==
  /\ pc = "init_msg"
  /\ MessageAction = "checkTokenStatus"
  /\ chk["msg"].pc = "fetching"
  /\ reply = "pending"

\* C16: the coordinator acknowledges a refreshToken or checkTokenStatus
\* message only in the step that completes the check the message started,
\* with that check's store write or removal done and no part of it still to
\* run; every delivered message is acknowledged, and only a pending message
\* is.
C16_AckAfterCheck ==
  /\ [][(reply' = "ack" /\ reply # "ack")
          => /\ reply = "pending"
             /\ chk'["msg"].pc = "idle"
             /\ chk'["msg"].last \in {"no_tokens", "valid", "refreshed", "failed"}
             /\ chk'["msg"].last = "failed" => ~HasTokens(store')
             /\ chk'["msg"].last = "refreshed" => store'.jwtToken = A2]_vars
  /\ [](reply = "ack" => chk["msg"].pc = "idle")
  /\ (reply = "pending") ~> (reply = "ack")

C16_Witness ==
  /\ reply = "ack"
  /\ pc = "ev_msg"
  /\ chk["msg"].last = "refreshed"
  /\ store.jwtToken = A2
  /\ store.refreshToken = R2

\* The three token fields are absent from the cache st and the store sto
Cleared(st, sto) == \A k \in TokenKeys : Absent(st[k]) /\ sto[k] = Undef

Partial(sto) == Truthy(sto.jwtToken) # Truthy(sto.refreshToken)

\* C18: every consumer treats a stored record with only one of access token
\* and refresh token as an empty store: the coordinator sends no request,
\* checkAuthState does not end in the authenticated view, and
\* ensureValidToken does not return true.
C18_PartialIsAbsent ==
  [][/\ \A c \in CheckIds :
          (Partial(store) /\ chk[c].pc = "idle") => chk'[c].pc = "idle"
     /\ (Partial(store) /\ InitCheckAuthState) => view' # "recipe"
     /\ (Partial(store) /\ EnsureReturnsTrue) => FALSE]_vars

C20_NeverExpiredInStore ==
  (pc = "closed" /\ Truthy(store.jwtToken) /\ ~ParseInt(store.tokenExpiresAt).nan)
    => ParseInt(store.tokenExpiresAt).val * 1000 > now

\* C21: a poll callback that has found no tokens and sees the attempt
\* counter at or beyond the ceiling stops the polling, closes the auth tab
\* and shows the timeout message; that step changes neither the store nor
\* the popup's cache nor the view.
C21_TimeoutStopsAndKeeps ==
  [][/\ \A i \in 1..MaxPending, ok \in BOOLEAN :
          (PollExec(i, ok) /\ ~PollFound(ok, tabStorage)
             /\ login.attempts >= authTimeout)
            => login'.timeouts = login.timeouts + 1
     /\ (login'.timeouts = login.timeouts + 1)
          => /\ login'.phase = "stopped"
             /\ login'.tab = "closed"
             /\ status' = "OAuth timeout - please try again"
             /\ store' = store
             /\ state' = state
             /\ view' = view]_vars

C21_Witness ==
  /\ login.timeouts = 1
  /\ login.commits = 0
  /\ login.attempts = authTimeout
  /\ login.phase = "stopped"
  /\ login.tab = "closed"
  /\ login.tabCloses = 1
  /\ status = "OAuth timeout - please try again"
  /\ store = EmptyStore

\* C22: a pushed EXTENSION_AUTH_SUCCESS message that carries a bundle with
\* an access token leaves the three token keys of the store as the login
\* poll leaves them when it finds the same bundle in the auth tab, from the
\* same store, cache and clock.
C22_PushCommitsAsPoll ==
  [][\A m \in PushMessages :
       (PushReceived(m) /\ Truthy(m.bundle.jwtToken))
         => StoreTokens(store') =
              StoreTokens(CasRead(variant, state, PollCommit(store, m.bundle),
                                  view, now).store)]_vars

\* C23: sendToEndpoint classifies a response by its status. 401 and 403
\* give a failure with the authentication error; any other status outside
\* 200..299 gives a failure whose error ends with the decimal status code;
\* a status in 200..299 gives success with that status, and data is null
\* when the body does not parse.
C23_ClassifiesByStatus ==
  (epCall.called /\ epCall.resp.kind = "http")
    => LET s == epCall.resp.status
           r == epCall.result
       IN IF s \in {401, 403}
            THEN /\ ~r.success
                 /\ r.error = <<"API authentication failed. Check console for details.">>
          ELSE IF s < 200 \/ s > 299
            THEN /\ ~r.success
                 /\ Len(r.error) = 2
                 /\ ParseInt(Str(r.error[2])) = [nan |-> FALSE, val |-> s]
          ELSE /\ r.success
               /\ r.status = Num(s)
               /\ ~epCall.resp.parses => r.data = Null
               /\ epCall.resp.parses => r.data = ParsedData

C23_Witness ==
  /\ epCall.called
  /\ epCall.resp = [kind |-> "http", status |-> 204, parses |-> FALSE]
  /\ epCall.result.success
  /\ epCall.result.data = Null

\* C24: ensureValidToken sends the popup's own refresh request only in the
\* step that follows the coordinator's answer or the failure of the message
\* send, and after an answer only when the reload left no access token in
\* the cache (the store then holds none); when the reload leaves an access
\* token, that step sends no refresh request and ensureValidToken returns
\* true.
C24_DirectRefreshIsFallback ==
  [][/\ (pc # "ev_fetch" /\ pc' = "ev_fetch")
          => /\ pc = "ev_msg"
             /\ reply \in {"ack", "error"}
             /\ reply = "ack"
                  => (~Truthy(state'.jwtToken) /\ ~Truthy(store.jwtToken))
             /\ Truthy(state'.refreshToken)
     /\ (pc = "ev_msg" /\ reply = "ack" /\ pc' # "ev_msg"
           /\ Truthy(Reload(variant, state, store).jwtToken))
          => (pc' = "send_fetch" /\ evPath' = "coordinator")]_vars

C24_Witness ==
  /\ pc = "ev_fetch"
  /\ reply = "none"
  /\ Truthy(state.refreshToken)
  /\ chk["msg"].last = "none"

\* C25: the step in which a refresh response arrives ends its exchange and
\* sends no further refresh request. In the coordinator the check is over,
\* as refreshed on a 2xx with a body and as failed otherwise; in the popup
\* a failed exchange of ensureValidToken ends it with false and a failed
\* exchange of checkAuthState ends in the unauthenticated view, neither
\* waiting for another response.
C25_OneRequestPerExchange ==
  [][/\ \A c \in CheckIds :
          (chk[c].pc = "fetching" /\ chk'[c] # chk[c])
            => (chk'[c].pc = "idle" /\ chk'[c].last \in {"refreshed", "failed"})
     /\ \A c \in {"msg", "timer"}, o \in RefreshOutcomes :
          (o.kind # "ok" /\ CheckResponse(c, o)) => chk'[c].last = "failed"
     /\ \A o \in RefreshOutcomes :
          (o.kind # "ok" /\ EnsureResponse(o))
            => (pc' = "ready" /\ evPath' = "failed")
     /\ \A o \in RefreshOutcomes :
          (o.kind # "ok" /\ InitCasResponse(o))
            => (pc' = "ready" /\ view' = "auth")
     /\ (pc \in {"ev_fetch", "cas_fetch"} /\ pc' # pc)
          => pc' \in {"send_fetch", "ready"}]_vars

C25_Witness ==
  /\ chk["timer"].pc = "idle"
  /\ chk["timer"].last = "failed"
  /\ pc = "ready"
  /\ evPath = "failed"
  /\ sendResult = "not_authenticated"
  /\ ~HasTokens(store)

\* What a key holds after storage.local.set was given the value v of a 2xx
\* body: v (a number as its decimal string), or what it held when the body
\* has no such value
Written(v, old) ==
  CASE v.t = "undef" -> old
    [] v.t = "num"   -> Str(NumToString(v.n))
    [] OTHER         -> v

\* The response of a refresh exchange arrives where the caller of
\* refreshAccessToken makes no storage call of its own: in the coordinator,
\* and in the popup on a 2xx with a body
PrimitiveReturns(o) ==
  \/ \E c \in {"msg", "timer"} : CheckResponse(c, o)
  \/ o.kind = "ok" /\ (EnsureResponse(o) \/ InitCasResponse(o))

C27_WholeRecordWrites ==
  [][store' # store =>
       /\ \/ \A k \in TokenKeys : store'[k].t # "undef"
          \/ \A k \in TokenKeys : store'[k].t = "undef"
       /\ \A k \in StoreKeys \ TokenKeys : store'[k] = store[k]]_vars

\* Calls of init() so far, and those whose check is waiting for its response
InitStarted == bgInit["load"] + bgInit["startup"] + bgInit["installed"]

InitRunning == Cardinality({i \in InitCalls : chk[i].pc = "fetching"})

C29_PollErrorsTolerated ==
  [][/\ \A i \in 1..MaxPending :
          (PollExec(i, FALSE) /\ login.attempts < authTimeout)
            => /\ login' = [login EXCEPT !.erred = TRUE]
               /\ cb'[i] = "idle"
               /\ store' = store /\ state' = state /\ view' = view
     /\ \A i \in 1..MaxPending :
          (PollExec(i, TRUE) /\ login.erred /\ Truthy(tabStorage.jwtToken))
            => /\ login'.commits = login.commits + 1
               /\ \/ store'.jwtToken = tabStorage.jwtToken
                  \/ ~HasTokens(store')
     /\ (login'.commits + login'.timeouts > login.commits + login.timeouts
           /\ \A i \in 1..MaxPending : cb'[i] # "cas_fetch")
          => (login'.phase = "stopped" /\ login'.tab = "closed")]_vars

C29_Witness ==
  /\ login.erred
  /\ login.commits = 1
  /\ login.attempts = 2
  /\ login.phase = "stopped"
  /\ login.tab = "closed"
  /\ store.jwtToken = A1
  /\ store.refreshToken = R1
  /\ view = "recipe"
  /\ \A i \in 1..MaxPending : cb[i] = "idle"

C31_InitWaitsForCoordinator ==
  /\ [][(pc = "init_msg" /\ pc' # "init_msg")
          => /\ reply \in {"ack", "error"}
             /\ reply = "ack" => chk["msg"].pc = "idle" /\ chk["msg"].last # "none"
             /\ pc' \in {"cas_fetch", "ready"}]_vars
  /\ (pc = "init_msg" /\ reply = "error") ~> (pc \in {"cas_fetch", "ready"})

C31_Witness ==
  /\ pc = "cas_fetch"
  /\ reply = "none"
  /\ chk["msg"].last = "none"
  /\ chk["msg"].pc = "idle"

\* C32: no two checks of the coordinator (of the timer, of a message, of an
\* init() call) have refresh requests in flight at the same time that carry
\* the same refresh token.
C32_OneExchangeInFlight ==
  \A c \in CheckIds, d \in CheckIds :
    (c # d /\ chk[c].pc = "fetching" /\ chk[d].pc = "fetching")
      => chk[c].rt # chk[d].rt

\* The refresh token of a request in flight is not the store's any more: the
\* store holds the tokens a later exchange has written
Superseded(rt, sto) ==
  /\ Truthy(sto.jwtToken)
  /\ Truthy(sto.refreshToken)
  /\ sto.refreshToken # rt

\* C33: a refresh request that fails after the store has received the tokens
\* of another, successful exchange leaves those tokens in the store, whether
\* the failing request is the coordinator's or the popup's.
C33_StaleFailureKeepsTokens ==
  [][/\ \A c \in CheckIds :
          (/\ chk[c].pc = "fetching"
           /\ Superseded(chk[c].rt, store)
           /\ chk'[c].last = "failed")
            => StoreTokens(store') = StoreTokens(store)
     /\ (/\ pc \in {"cas_fetch", "ev_fetch"}
         /\ Superseded(state.refreshToken, store)
         /\ pc' = "ready"
         /\ view' = "auth")
          => StoreTokens(store') = StoreTokens(store)]_vars

\* C34: when the coordinator answers a message with success: true, the store
\* holds at that moment an access token and a refresh token that are not
\* expiring; after a failed exchange or over a store without tokens the answer
\* does not report success.
C34_SuccessMeansValidTokens ==
  [][(reply = "pending" /\ reply' = "ack")
       => /\ ResponseValue(chk'["msg"].last).success
               => /\ Truthy(store'.jwtToken)
                  /\ Truthy(store'.refreshToken)
                  /\ ~BgIsTokenExpired(store'.tokenExpiresAt, now')
          /\ chk'["msg"].last \in {"failed", "no_tokens"}
               => ~ResponseValue(chk'["msg"].last).success]_vars

\* C35: a login flow writes the tokens it found to the store at most once,
\* and once it has written them no further poll attempt of that flow starts.
C35_CommitAtMostOnce ==
  /\ [](login.commits <= 1)
  /\ [][login.commits >= 1 => login'.attempts <= login.attempts]_vars

\* C36: a login flow reports success at most once and the timeout at most
\* once, never both, and its auth tab is closed at most once.
C36_OneTerminalOutcome ==
  /\ login.commits + login.timeouts <= 1
  /\ login.tabCloses <= 1

\* The cache agrees with the store on the three token keys: the store's value
\* where the key is present, nothing where it is absent
CacheMatchesStore(st, sto) ==
  \A k \in TokenKeys :
    IF sto[k] = Undef THEN Absent(st[k]) ELSE st[k] = sto[k]

\* The popup has reloaded its cache in this step: checkAuthState() of init(),
\* or step 1 of ensureValidToken() after the coordinator's answer
ReloadStep ==
  \/ pc = "init_msg" /\ pc' # "init_msg"
  \/ pc = "ev_msg" /\ reply = "ack" /\ pc' # "ev_msg"

\* C37: after the popup has reloaded its cache from the store, each cached
\* token field holds the store's value, and the field of a key absent from
\* the store holds no token.
C37_ReloadMirrorsStore ==
  [][ReloadStep => CacheMatchesStore(state', store')]_vars

\* A call of checkAuthState() ends in this step: the one of init(), or the
\* one of a poll callback that has written the tokens it found
CasEnds ==
  \/ pc \in {"init_msg", "cas_fetch"} /\ pc' = "ready"
  \/ \E i \in DOMAIN cb :
       /\ cb'[i] = "idle"
       /\ \/ cb[i] = "cas_fetch"
          \/ cb[i] = "exec" /\ login'.commits > login.commits

\* C38: when checkAuthState() ends with the authenticated view shown, the
\* store holds an access token and a refresh token at that moment.
C38_RecipeViewMeansStoredTokens ==
  [][(CasEnds /\ view' = "recipe")
       => Truthy(store'.jwtToken) /\ Truthy(store'.refreshToken)]_vars

\* A string that is present and holds no digit
NonNumeric(v) ==
  /\ v.t = "str"
  /\ v.s # <<>>
  /\ \A i \in 1..Len(v.s) : ~IsDigit(v.s[i])

\* C39: isTokenExpired, in the coordinator and in the popup, answers true
\* (expiring) for an expiry value that is a string without any number in it.
C39_UnreadableExpiryIsExpired ==
  (expCall.ctx # "none" /\ NonNumeric(expCall.arg)) => expCall.result

\* C40: a window message posted by a page other than the authentication page
\* is not relayed, whatever its type, and a step that such a message can
\* cause leaves the token keys of the store as they are.
C40_OnlyAuthPageReachesStore ==
  [][\A ty \in WindowTypes, m \in PushMessages :
       /\ ~Relays("other_page", ty)
       /\ WindowMessage("other_page", ty, m)
            => StoreTokens(store') = StoreTokens(store)]_vars

====
